---------------------------- MODULE Spec2Model ----------------------------
(***************************************************************************)
(* Model of the JobScraper API: the get_jobs handler (query expansion,     *)
(* per-combination validation, scraper calls, result normalization), the   *)
(* MongoDB holder, the RequestLogger, the log_requests middleware, the    *)
(* TimeoutMiddleware class, and the logs and health endpoints.             *)
(*                                                                         *)
(* Text is modelled as a sequence of lexemes: a lexeme is a word, a comma  *)
(* "," or a blank " ".  Python's Optional[T] is a sequence of length at    *)
(* most one: <<>> is None and <<x>> is the value x.                        *)
(***************************************************************************)
EXTENDS Naturals, Integers, Sequences, FiniteSets, TLC

VARIABLES
    pc,           \* position of the running endpoint handler
    query,        \* arguments of the running get_jobs call
    sites,        \* get_jobs local `sites`
    search_terms, \* get_jobs local `search_terms`
    locations,    \* get_jobs local `locations`
    job_types,    \* get_jobs local `job_types`
    idx,          \* positions of the three nested for-loops of get_jobs
    all_results,  \* get_jobs local `all_results`
    total_jobs,   \* get_jobs local `total_jobs`
    calls,        \* keyword arguments of every scrape_jobs call of this request
    frames,       \* the frame each scrape_jobs call of this request returned
    job,          \* get_jobs loop variable `job`: the row under conversion
    kwargs,       \* the keyword arguments computed for the last JobResponse(...)
    resp,         \* what the handler returned (or the HTTPException it raised)
    client,       \* MongoDB.client
    db,           \* MongoDB.db
    collection,   \* MongoDB.collection
    coll_exists,  \* whether the store lists the collection
    store,        \* documents of the collection, in retrieval order
    mw,           \* position of the log_requests middleware
    req,          \* the HTTP request being served
    inserts,      \* documents handed to insert_one while serving this request
    oplog,        \* ERROR lines of the operator log since the request (under
                  \* direct calls: the last call) began
    sent,         \* what the caller of the HTTP request received
    last_call,    \* the last direct call of a MongoDB / RequestLogger method
    clock,        \* seconds since the request started (time.time() - start_time)
    pending,      \* the MongoDB.get_logs call suspended at an await, if any
    pending_log   \* the log_request call suspended at insert_one, if any

jobVars == <<pc, query, sites, search_terms, locations, job_types, idx,
             all_results, total_jobs, calls, frames, job, kwargs, resp>>
dbVars  == <<client, db, collection, coll_exists, store>>
mwVars  == <<mw, req, inserts, oplog, sent, last_call, clock, pending, pending_log>>
\* mwVars but the operator log.
mwQuiet == <<mw, req, inserts, sent, last_call, clock, pending, pending_log>>
vars    == <<jobVars, dbVars, mwVars>>

-----------------------------------------------------------------------------
(* Python values                                                           *)

None == <<>>

Some(x) == <<x>>

\* Python truthiness of an Optional[str]: None and "" are falsy.
Truthy(opt) == opt # None /\ opt[1] # <<>>

-----------------------------------------------------------------------------
(* Text helpers: str.split(","), str.strip(), str.lower()                  *)

RECURSIVE Split(_, _)
Split(s, sep) ==
    IF \A i \in 1..Len(s) : s[i] # sep
    THEN <<s>>
    ELSE LET i == CHOOSE k \in 1..Len(s) :
                      s[k] = sep /\ \A j \in 1..(k - 1) : s[j] # sep
         IN  <<SubSeq(s, 1, i - 1)>> \o Split(SubSeq(s, i + 1, Len(s)), sep)

RECURSIVE Strip(_)
Strip(s) ==
    IF s = <<>> THEN s
    ELSE IF Head(s) = " " THEN Strip(Tail(s))
    ELSE IF s[Len(s)] = " " THEN Strip(SubSeq(s, 1, Len(s) - 1))
    ELSE s

LowerWord(w) ==
    CASE w = "Indeed"   -> "indeed"
      [] w = "XYZ"      -> "xyz"
      [] w = "Contract" -> "contract"
      [] w = "Authorization" -> "authorization"
      [] w = "AUTHORIZATION" -> "authorization"
      [] w = "X-Api-Key" -> "x-api-key"
      [] OTHER          -> w

Lower(s) == [i \in 1..Len(s) |-> LowerWord(s[i])]

Range(seq) == {seq[i] : i \in 1..Len(seq)}

StripLower(s) == Lower(Strip(s))

-----------------------------------------------------------------------------
(* JobSearchParams: the field validators                                   *)

valid_sites ==
    { <<"linkedin">>, <<"indeed">>, <<"zip_recruiter">>, <<"glassdoor">>,
      <<"google">>, <<"bayt">> }

valid_types ==
    { <<"fulltime">>, <<"parttime">>, <<"internship">>, <<"contract">> }

\* One line of an error message: the field it is about, the invalid values it
\* enumerates and the valid set it lists.
ErrorLine(f, bad, good) == [field |-> f, invalid |-> bad, valid |-> good]

\* validate_site_name on a list: the invalid tokens after strip and lower.
invalid_sites(v) == {StripLower(v[i]) : i \in 1..Len(v)} \ valid_sites

\* validate_site_name without its raise.
validate_site_name_accepting(v) == {}

\* validate_site_name: the error lines it raises (none when it accepts).
validate_site_name(v) ==
    IF invalid_sites(v) # {}
    THEN {ErrorLine("site_name", invalid_sites(v), valid_sites)}
    ELSE {}

\* validate_job_type without its raise.
validate_job_type_accepting(v) == {}

\* validate_job_type on Optional[str].
validate_job_type(v) ==
    IF v = None THEN {}
    ELSE LET types   == {StripLower(t) : t \in Range(Split(v[1], ","))}
             invalid == types \ valid_types
         IN  IF invalid # {}
             THEN {ErrorLine("job_type", invalid, valid_types)}
             ELSE {}

\* proxies: Optional[List[str]] checked before validate_proxies runs; get_jobs
\* hands over the raw query string, which is no list.
validate_proxies(v) ==
    IF v = None THEN {} ELSE {ErrorLine("proxies", {}, {})}

\* JobSearchParams(...): every failing field's error line (pydantic reports
\* all failing fields in one ValidationError, a ValueError).
JobSearchParams(site_list, jt, proxies) ==
    validate_site_name(site_list) \cup validate_job_type(jt)
        \cup validate_proxies(proxies)

\* params.model_dump(exclude_none=True), the fields that vary.
model_dump(site_list, st, loc, jt) ==
    [site_name   |-> {StripLower(site_list[i]) : i \in 1..Len(site_list)},
     search_term |-> st, location |-> loc, job_type |-> jt]

-----------------------------------------------------------------------------
(* ResultNormalizer: one DataFrame row to one JobResponse                  *)
(* A cell is a Python str (a TLA+ string as it is) or one of the tagged    *)
(* non-str values below.                                                   *)

NoneV  == "<None>"
NaN    == "<nan>"
TrueV  == "<True>"
FalseV == "<False>"

FloatValues == {NaN, "<0.0>", "<50000.0>", "<90000.0>"}
BoolValues  == {TrueV, FalseV}
NonStr      == {NoneV} \cup FloatValues \cup BoolValues

IsStr(v) == v \notin NonStr

\* bool(v): None, "", 0.0 and False are falsy; NaN is a non-zero float.
Falsy(v) == v \in {NoneV, "", "<0.0>", FalseV}

\* a or b
Or(a, b) == IF Falsy(a) THEN b ELSE a

\* str(v)
Str(v) ==
    CASE v = NoneV       -> "None"
      [] v = NaN         -> "nan"
      [] v = TrueV       -> "True"
      [] v = FalseV      -> "False"
      [] v = "<0.0>"     -> "0.0"
      [] v = "<50000.0>" -> "50000.0"
      [] v = "<90000.0>" -> "90000.0"
      [] OTHER           -> v

\* handle_nan without its conversion.
handle_nan_identity(value) == value

handle_nan(value) == IF value = NaN THEN NoneV ELSE value

\* job.get(key, default) on a row: the cell when the frame has the column.
Get(row, key, default) == IF key \in DOMAIN row THEN row[key] ELSE default

\* handle_nan(job.get("location", "")), else the truthy ones of city and state
\* joined by ", ".
city_of(row)  == handle_nan(Get(row, "city", ""))
state_of(row) == handle_nan(Get(row, "state", ""))

job_location(row) ==
    LET loc == handle_nan(Get(row, "location", ""))
    IN  IF ~Falsy(loc) THEN loc
        ELSE IF ~Falsy(city_of(row)) /\ ~Falsy(state_of(row))
             THEN city_of(row) \o ", " \o state_of(row)
        ELSE IF ~Falsy(city_of(row)) THEN city_of(row)
        ELSE IF ~Falsy(state_of(row)) THEN state_of(row)
        ELSE ""

\* ", ".join(...) raises TypeError on a truthy item that is no str.
join_raises(row) ==
    /\ Falsy(handle_nan(Get(row, "location", "")))
    /\ \/ (~Falsy(city_of(row)) /\ ~IsStr(city_of(row)))
       \/ (~Falsy(state_of(row)) /\ ~IsStr(state_of(row)))

\* The keyword arguments get_jobs hands to JobResponse(...).
JobResponseArgs(row) ==
    [source_website   |-> handle_nan(Get(row, "site", "")),
     job_title        |-> handle_nan(Get(row, "title", "")),
     company          |-> Or(handle_nan(Get(row, "company", NoneV)), "Unknown Company"),
     location         |-> IF join_raises(row) THEN "" ELSE job_location(row),
     date_posted      |-> Str(handle_nan(Get(row, "date_posted", ""))),
     job_type         |-> handle_nan(Get(row, "job_type", NoneV)),
     salary           |-> handle_nan(Or(Get(row, "min_amount", NoneV),
                                        Get(row, "max_amount", NoneV))),
     currency         |-> handle_nan(Get(row, "currency", "USD")),
     is_remote        |-> handle_nan(Get(row, "is_remote", FalseV)),
     job_description  |-> handle_nan(Get(row, "description", "")),
     experience_range |-> handle_nan(Get(row, "experience_range", NoneV))]

\* JobResponse(**kwargs): the fields pydantic rejects.  total_results is a
\* required field of the model.
RequiredStr == {"source_website", "job_title", "company", "location", "date_posted"}
OptionalStr == {"job_type", "currency", "job_description", "experience_range"}

\* Optional[float] and Optional[bool] in pydantic's lax mode: a float field
\* takes floats, bools and every text float() parses (of the texts at hand:
\* the integer words, the texts str() gives for a float, "nan" among them);
\* a bool field takes bools, the floats 0.0 and 1.0 and the texts below in
\* any letter case.
NumericTexts ==
    {"0", "1", "12", "34", "50000", "nan", "inf", "0.0", "50000.0", "90000.0"}

BoolTextsLower ==
    {"0", "off", "f", "false", "n", "no", "1", "on", "t", "true", "y", "yes"}

\* Every spelling whose lower-case form is in BoolTextsLower.
BoolTexts ==
    {
     "0",
     "OFF", "OFf", "OfF", "Off", "oFF", "oFf", "ofF", "off",
     "F", "f",
     "FALSE", "FALSe", "FALsE", "FALse", "FAlSE", "FAlSe", "FAlsE",
     "FAlse", "FaLSE", "FaLSe", "FaLsE", "FaLse", "FalSE", "FalSe",
     "FalsE", "False", "fALSE", "fALSe", "fALsE", "fALse", "fAlSE",
     "fAlSe", "fAlsE", "fAlse", "faLSE", "faLSe", "faLsE", "faLse",
     "falSE", "falSe", "falsE", "false",
     "N", "n",
     "NO", "No", "nO", "no",
     "1",
     "ON", "On", "oN", "on",
     "T", "t",
     "TRUE", "TRUe", "TRuE", "TRue", "TrUE", "TrUe", "TruE", "True",
     "tRUE", "tRUe", "tRuE", "tRue", "trUE", "trUe", "truE", "true",
     "Y", "y",
     "YES", "YEs", "YeS", "Yes", "yES", "yEs", "yeS", "yes"
    }

AcceptsFloat(v) == v \in FloatValues \cup BoolValues \cup NumericTexts \cup {NoneV}

AcceptsBool(v) == v \in BoolValues \cup {"<0.0>"} \cup BoolTexts \cup {NoneV}

JobResponse(kw) ==
    {ErrorLine(f, {}, {}) : f \in {"total_results"} \ DOMAIN kw}
    \cup {ErrorLine(f, {}, {}) : f \in {g \in RequiredStr : ~IsStr(kw[g])}}
    \cup {ErrorLine(f, {}, {}) :
            f \in {g \in OptionalStr : kw[g] # NoneV /\ ~IsStr(kw[g])}}
    \cup {ErrorLine(f, {}, {}) :
            f \in {g \in {"salary"} : ~AcceptsFloat(kw[g])}}
    \cup {ErrorLine(f, {}, {}) :
            f \in {g \in {"is_remote"} : ~AcceptsBool(kw[g])}}

-----------------------------------------------------------------------------
(* get_jobs: inputs                                                        *)

\* Rows a scrape_jobs call may return at most.
MaxRows == 2

SearchTermInputs ==
    { None, Some(<<>>), Some(<<"dev">>), Some(<<"dev", ",", " ", "ops">>),
      Some(<<"ops", ",", "dev">>) }

LocationInputs == { None, Some(<<"nyc">>), Some(<<"nyc", ",", "sf">>) }

JobTypeInputs ==
    { None, Some(<<"fulltime">>), Some(<<"fulltime", ",", "Contract">>),
      Some(<<"bogus">>), Some(<<"fulltime", ",", "bogus">>) }

SiteNameInputs ==
    { <<"linkedin", ",", " ", "Indeed">>, <<"XYZ">>,
      <<"linkedin", ",", "xyz", ",", "naukri">>, <<>> }

CompanyIdInputs == { None, Some(<<"12", ",", "34">>), Some(<<"12", ",", "ab">>) }

ProxyInputs == { None, Some(<<"host">>) }

JobQueries ==
    [site_name : SiteNameInputs, search_term : SearchTermInputs,
     location : LocationInputs, job_type : JobTypeInputs,
     proxies : ProxyInputs, linkedin_company_ids : CompanyIdInputs]

NoQuery ==
    [site_name |-> <<>>, search_term |-> None, location |-> None,
     job_type |-> None, proxies |-> None, linkedin_company_ids |-> None]

RowA ==
    [site |-> "indeed", title |-> "Engineer", company |-> "Acme",
     location |-> "Austin, TX", date_posted |-> "2024-05-01",
     job_type |-> "fulltime", min_amount |-> "<50000.0>",
     max_amount |-> "<90000.0>", currency |-> "USD", is_remote |-> TrueV,
     description |-> "Build things"]

RowB ==
    [site |-> "indeed", title |-> "Analyst", company |-> NaN,
     location |-> NaN, date_posted |-> NaN,
     job_type |-> NaN, min_amount |-> NaN,
     max_amount |-> "<90000.0>", currency |-> NaN, is_remote |-> NaN,
     description |-> NaN]

RawRows == {RowA, RowB}

\* No row at hand, no keyword arguments computed.
NoRow == << >>

NoArgs == << >>

\* The cells of the rows handed to the conversion on its own; Missing marks a
\* column the frame does not have.
Missing == "<missing>"

AmountCells == {Missing, NoneV, NaN, "<0.0>", "<50000.0>", "<90000.0>"}

CurrencyCells == {Missing, NoneV, NaN, "EUR"}

RemoteCells == {Missing, NoneV, NaN, TrueV}

TextCells == {NaN, "text"}

\* The row of the columns the frame has.
RowOf(cells) == [k \in {c \in DOMAIN cells : cells[c] # Missing} |-> cells[k]]

NormRows ==
    { RowOf([site |-> "indeed", title |-> t, company |-> t, location |-> t,
             city |-> "Austin", state |-> NaN, date_posted |-> t,
             job_type |-> o, description |-> o,
             experience_range |-> IF o = NaN THEN NaN ELSE Missing,
             min_amount |-> lo, max_amount |-> hi, currency |-> c,
             is_remote |-> r]) :
        t \in TextCells, o \in TextCells, lo \in AmountCells, hi \in AmountCells,
        c \in CurrencyCells, r \in RemoteCells }

\* The frames scrape_jobs may return: up to MaxRows rows.
RECURSIVE SeqsUpTo(_, _)
SeqsUpTo(S, n) ==
    IF n = 0 THEN {<<>>}
    ELSE SeqsUpTo(S, n - 1)
         \cup {Append(q, x) : q \in {r \in SeqsUpTo(S, n - 1) : Len(r) = n - 1}, x \in S}

Frames == SeqsUpTo(RawRows, MaxRows)

\* What scrape_jobs may raise, and which of those are ValueErrors.
ScraperErrors == {"ConnectionError", "JSONDecodeError"}
ValueErrors   == {"ValueError", "JSONDecodeError", "ValidationError"}

-----------------------------------------------------------------------------
(* get_jobs: the handler                                                   *)

\* A response: its status, an error's detail lines, and the body fields of the
\* three endpoints (total_results and jobs; the health payload; the logs).
NoResp ==
    [status |-> 0, detail |-> {}, total_results |-> 0, jobs |-> <<>>,
     payload |-> "", logs |-> <<>>]

\* raise HTTPException(status_code=..., detail=...)
HTTPException(code, lines) == [NoResp EXCEPT !.status = code, !.detail = lines]

\* return JobSearchResponse(total_results=..., jobs=...)
JobSearchResponse(total, jobs) ==
    [NoResp EXCEPT !.status = 200, !.total_results = total, !.jobs = jobs]

\* The except clauses of get_jobs: ValueError -> 400, anything else -> 500.
StatusOfError(e) == IF e \in ValueErrors THEN 400 ELSE 500

\* What the except clause of that status writes with logger.error.
LoggedFor(status) ==
    IF status = 400 THEN "Validation error" ELSE "Unexpected error during job search"

IntWords == {"12", "34"}

\* int(id.strip()) succeeds
IsIntText(t) == Len(Strip(t)) = 1 /\ Strip(t)[1] \in IntWords

\* The first token of linkedin_company_ids that int() rejects, if any.
BadCompanyIds(opt) ==
    IF ~Truthy(opt) THEN <<>>
    ELSE SelectSeq(Split(opt[1], ","), LAMBDA t : ~IsIntText(t))

\* [x.strip() for x in text.split(",")] if text else [None]
SplitOrNone(opt) ==
    IF Truthy(opt)
    THEN [i \in 1..Len(Split(opt[1], ",")) |-> Some(Strip(Split(opt[1], ",")[i]))]
    ELSE <<None>>

\* [site.strip() for site in site_name.split(",")] if site_name else []
SplitSites(text) ==
    IF text # <<>>
    THEN [i \in 1..Len(Split(text, ",")) |-> Strip(Split(text, ",")[i])]
    ELSE <<>>

\* The nested for-loops: the positions after one pass of the innermost body,
\* s = 0 when the outermost loop is exhausted.
LoopNextSearchInnermost(i, k1, k2, k3) ==
    IF i.s < k1 THEN [i EXCEPT !.s = @ + 1]
    ELSE IF i.l < k2 THEN [i EXCEPT !.l = @ + 1, !.s = 1]
    ELSE IF i.j < k3 THEN [s |-> 1, l |-> 1, j |-> i.j + 1]
    ELSE [s |-> 0, l |-> 0, j |-> 0]

LoopNext(i, k1, k2, k3) ==
    IF i.j < k3 THEN [i EXCEPT !.j = @ + 1]
    ELSE IF i.l < k2 THEN [i EXCEPT !.l = @ + 1, !.j = 1]
    ELSE IF i.s < k1 THEN [s |-> i.s + 1, l |-> 1, j |-> 1]
    ELSE [s |-> 0, l |-> 0, j |-> 0]

LoopStart == [s |-> 1, l |-> 1, j |-> 1]

\* Lines 137-150: parse linkedin_company_ids, split the comma lists.
GetJobsCall(q) ==
    /\ pc = "idle"
    /\ query' = q
    /\ calls' = <<>>
    /\ frames' = <<>>
    /\ all_results' = <<>>
    /\ total_jobs' = 0
    /\ job' = NoRow
    /\ kwargs' = NoArgs
    /\ IF BadCompanyIds(q.linkedin_company_ids) # <<>>
       THEN /\ resp' = HTTPException(400,
                  {ErrorLine("int()", {Strip(Head(BadCompanyIds(q.linkedin_company_ids)))}, {})})
            /\ oplog' = {LoggedFor(400)}
            /\ pc' = "done"
            /\ UNCHANGED <<sites, search_terms, locations, job_types, idx>>
       ELSE /\ search_terms' = SplitOrNone(q.search_term)
            /\ locations' = SplitOrNone(q.location)
            /\ job_types' = SplitOrNone(q.job_type)
            /\ sites' = SplitSites(q.site_name)
            /\ idx' = LoopStart
            /\ resp' = NoResp
            /\ oplog' = {}
            /\ pc' = "validate"

\* Lines 159-179: JobSearchParams(...) for the combination at hand.
ValidateCombination ==
    /\ pc = "validate"
    /\ LET errs == JobSearchParams(sites, job_types[idx.j], query.proxies)
       IN  IF errs # {}
           THEN /\ resp' = HTTPException(400, errs)
                /\ oplog' = oplog \cup {LoggedFor(400)}
                /\ pc' = "done"
           ELSE /\ resp' = resp
                /\ oplog' = oplog
                /\ pc' = "scrape"
    /\ UNCHANGED <<query, sites, search_terms, locations, job_types, idx,
                   all_results, total_jobs, calls, frames, job, kwargs>>

CurrentParams ==
    model_dump(sites, search_terms[idx.s], locations[idx.l], job_types[idx.j])

\* Index of the first row whose conversion raises, 0 when none does.
FirstBadRow(rows) ==
    LET bad == {i \in 1..Len(rows) :
                   join_raises(rows[i]) \/ JobResponse(JobResponseArgs(rows[i])) # {}}
    IN  IF bad = {} THEN 0 ELSE CHOOSE i \in bad : \A k \in bad : i <= k

\* Lines 182-208 when scrape_jobs returns a frame.
ScrapeReturns(rows) ==
    /\ pc = "scrape"
    /\ \A i \in 1..Len(rows) : DOMAIN rows[i] = DOMAIN rows[1]
    /\ calls' = Append(calls, CurrentParams)
    /\ frames' = Append(frames, rows)
    /\ total_jobs' = total_jobs + Len(rows)
    /\ LET b    == FirstBadRow(rows)
           nxt  == LoopNext(idx, Len(search_terms), Len(locations), Len(job_types))
           done == [i \in 1..(IF b = 0 THEN Len(rows) ELSE b - 1) |->
                        JobResponseArgs(rows[i])]
           last == IF b = 0 THEN Len(rows)
                   ELSE IF join_raises(rows[b]) THEN b - 1 ELSE b
       IN  /\ all_results' = all_results \o done
           /\ job' = IF rows = <<>> THEN job
                     ELSE rows[IF b = 0 THEN Len(rows) ELSE b]
           /\ kwargs' = IF last = 0 THEN kwargs ELSE JobResponseArgs(rows[last])
           /\ IF b # 0
              THEN /\ resp' = IF join_raises(rows[b])
                              THEN HTTPException(500, {ErrorLine("TypeError", {}, {})})
                              ELSE HTTPException(400, JobResponse(JobResponseArgs(rows[b])))
                   /\ oplog' = oplog \cup {LoggedFor(IF join_raises(rows[b]) THEN 500 ELSE 400)}
                   /\ pc' = "done"
                   /\ idx' = idx
              ELSE IF nxt.s = 0
              THEN /\ resp' = JobSearchResponse(total_jobs', all_results')
                   /\ oplog' = oplog
                   /\ pc' = "done"
                   /\ idx' = idx
              ELSE /\ resp' = resp
                   /\ oplog' = oplog
                   /\ pc' = "validate"
                   /\ idx' = nxt
    /\ UNCHANGED <<query, sites, search_terms, locations, job_types>>

\* Line 182 when scrape_jobs raises e.
ScrapeRaises(e) ==
    /\ pc = "scrape"
    /\ calls' = Append(calls, CurrentParams)
    /\ resp' = HTTPException(StatusOfError(e), {ErrorLine(e, {}, {})})
    /\ oplog' = oplog \cup {LoggedFor(StatusOfError(e))}
    /\ pc' = "done"
    /\ UNCHANGED <<query, sites, search_terms, locations, job_types, idx,
                   all_results, total_jobs, frames, job, kwargs>>

\* The handler's frame is gone: its locals are dropped.
DropLocals ==
    /\ pc' = "idle"
    /\ query' = NoQuery
    /\ sites' = <<>>
    /\ search_terms' = <<>>
    /\ locations' = <<>>
    /\ job_types' = <<>>
    /\ idx' = LoopStart
    /\ all_results' = <<>>
    /\ total_jobs' = 0
    /\ calls' = <<>>
    /\ frames' = <<>>
    /\ job' = NoRow
    /\ kwargs' = NoArgs

\* The response has been handed over.
GetJobsReturn ==
    /\ pc = "done"
    /\ DropLocals
    /\ resp' = NoResp

JobInit ==
    /\ pc = "idle"
    /\ query = NoQuery
    /\ sites = <<>>
    /\ search_terms = <<>>
    /\ locations = <<>>
    /\ job_types = <<>>
    /\ idx = LoopStart
    /\ all_results = <<>>
    /\ total_jobs = 0
    /\ calls = <<>>
    /\ frames = <<>>
    /\ job = NoRow
    /\ kwargs = NoArgs
    /\ resp = NoResp

-----------------------------------------------------------------------------
(* MongoDB: the class-level connection holder, and RequestLogger           *)

\* Documents the collection may hold at most.
MaxStore == 3

DbInit ==
    /\ client = "None"
    /\ db = "None"
    /\ collection = "None"
    /\ coll_exists \in BOOLEAN
    /\ store = <<>>

\* connect_to_mongodb ending `out`: the three assignments of its try block in
\* order (a new client, its database handle, its collection handle); the one
\* that raises leaves the later attributes as they were, the error is logged
\* and raised again.
ConnectOutcomes == {"ok", "ClientError", "DatabaseError", "CollectionError"}

connect_to_mongodb(out) ==
    /\ out \in ConnectOutcomes
    /\ client' = IF out = "ClientError" THEN client ELSE "open"
    /\ db' = IF out \in {"ClientError", "DatabaseError"} THEN db ELSE "set"
    /\ collection' = IF out = "ok" THEN "set" ELSE collection
    /\ UNCHANGED <<coll_exists, store>>

ConnectLogged(out) ==
    IF out = "ok" THEN {} ELSE {"Could not connect to MongoDB"}

\* close_mongodb_connection: closes the client when there is one.
close_mongodb_connection ==
    /\ client' = IF client # "None" THEN "closed" ELSE client
    /\ UNCHANGED <<db, collection, coll_exists, store>>

NotInitialized == "RuntimeError: MongoDB connection not initialized"

\* Whether MongoDB.log_request gets past its guard to insert_one.
ReachesInsert == collection # "None"

\* insert_one gives the document it stores an `_id`, an ObjectId.
Stored(doc) == ("_id" :> "ObjectId") @@ doc

\* MongoDB.log_request suspends at `await collection.insert_one(...)`.  What
\* the await may answer: the document inserted, or insert_one raising
\* (logged, raised again).
InsertOutcomes == {"ok", "InsertError"}

\* How a log_request call may end: the guard's explicit error, or an answer
\* of insert_one.
LogOutcomes == {NotInitialized} \cup InsertOutcomes

\* insert_one(document) answered `out`.
InsertOne(doc, out) ==
    /\ out \in InsertOutcomes
    /\ IF out = "ok"
       THEN /\ Len(store) < MaxStore
            /\ store' = Append(store, Stored(doc))
            /\ coll_exists' = TRUE
       ELSE UNCHANGED <<store, coll_exists>>
    /\ UNCHANGED <<client, db, collection>>

\* What MongoDB.log_request writes with logger.error (the guard's RuntimeError
\* is raised outside the try block).
LogRequestLogged(out) ==
    IF out = "InsertError" THEN {"Failed to log request to MongoDB"} ELSE {}

\* cursor = collection.find().skip(skip).limit(limit); to_list(length=limit)
Min(a, b) == IF a <= b THEN a ELSE b

FindWithoutSkip(docs, skip, limit) == SubSeq(docs, 1, Min(Len(docs), limit))

FindSkipLimit(docs, skip, limit) ==
    SubSeq(docs, skip + 1, Min(Len(docs), skip + limit))

\* MongoDB.get_logs suspends twice: at `await db.list_collection_names()` and
\* at `await cursor.to_list(...)`.  What each await may answer.
ListOutcomes == {"listed", "ListError"}

ReadOutcomes == {"ok", "FindError"}

NoPending == << >>

\* What get_logs writes with logger.error.
GetLogsLogged(out) ==
    IF out \in {"ListError", "FindError"}
    THEN {"Failed to retrieve logs from MongoDB"} ELSE {}

\* headers={k: v for k, v in headers.items() if k.lower() != "authorization"}
SanitizedHeadersCaseSensitive(headers) ==
    [k \in {x \in DOMAIN headers : x # "authorization"} |-> headers[k]]

SanitizedHeaders(headers) ==
    [k \in {x \in DOMAIN headers : LowerWord(x) # "authorization"} |-> headers[k]]

\* RequestLog(...) as RequestLogger.log_request builds it.
RequestLog(method, path, headers, response_status) ==
    [method |-> method, path |-> path, headers |-> SanitizedHeaders(headers),
     response_status |-> response_status]

-----------------------------------------------------------------------------
(* Direct calls of the MongoDB and RequestLogger methods                   *)

NoCall ==
    [op |-> "", before |-> "None", args |-> <<>>, out |-> "", result |-> <<>>,
     inserted |-> <<>>]

\* The empty mapping and a header mapping's examples.
NoHeaders == [k \in {} |-> ""]

HeaderKeys ==
    {"Authorization", "authorization", "AUTHORIZATION", "x-api-key", "X-Api-Key",
     "proxy-authorization"}

\* Keys a header mapping holds at most.
MaxHeaders == 2

HeaderInputs ==
    UNION {[D -> {"v1", "v2"}] : D \in {E \in SUBSET HeaderKeys : Cardinality(E) <= MaxHeaders}}

Paths == {"/health", "/api/v1/jobs"}

ConnectCall(out) ==
    /\ connect_to_mongodb(out)
    /\ last_call' = [NoCall EXCEPT !.op = "connect_to_mongodb", !.before = client,
                        !.out = out]

CloseCall ==
    /\ close_mongodb_connection
    /\ last_call' = [NoCall EXCEPT !.op = "close_mongodb_connection", !.before = client]

\* The record of a log_request call that ended `out`; it keeps what
\* MongoDB.client was when the call began, the record built (result) and what
\* insert_one was handed (inserted).
LogRequestEnded(p, out) ==
    [NoCall EXCEPT !.op = "log_request", !.before = p.before, !.args = p.args,
                   !.out = out, !.result = <<p.doc>>,
                   !.inserted = IF out = NotInitialized THEN <<>> ELSE <<p.doc>>]

\* RequestLogger.log_request(...) up to the await of insert_one: the record
\* is built, then the guard of MongoDB.log_request raises or the call is
\* suspended at insert_one.
LogRequestCall(method, path, headers, status) ==
    /\ pending_log = NoPending
    /\ IF ReachesInsert
       THEN /\ last_call' = last_call
            /\ pending_log' = <<[before |-> client,
                                 args |-> <<method, path, headers, status>>,
                                 doc |-> RequestLog(method, path, headers, status)]>>
       ELSE /\ last_call' = LogRequestEnded(
                                [before |-> client,
                                 args |-> <<method, path, headers, status>>,
                                 doc |-> RequestLog(method, path, headers, status)],
                                NotInitialized)
            /\ pending_log' = pending_log
    /\ UNCHANGED dbVars

\* insert_one answered: the document is stored, or the error is logged and
\* raised again.
LogRequestInserted(out) ==
    /\ pending_log # NoPending
    /\ InsertOne(pending_log[1].doc, out)
    /\ last_call' = LogRequestEnded(pending_log[1], out)
    /\ pending_log' = NoPending

LogLimits == {1, 2, 1000}

\* The record of a get_logs call that ended `out` with `result`; it keeps
\* what MongoDB.client and MongoDB.collection were when the call began.
GetLogsEnded(p, out, result) ==
    [NoCall EXCEPT !.op = "get_logs", !.before = p.before,
                   !.args = <<p.skip, p.limit, p.handle>>, !.out = out, !.result = result]

\* MongoDB.get_logs(skip, limit) up to its first await: the guard raises, or
\* the call is suspended at list_collection_names.
GetLogsCall(skip, limit) ==
    /\ pending = NoPending
    /\ IF collection = "None"
       THEN /\ last_call' = GetLogsEnded([skip |-> skip, limit |-> limit, before |-> client,
                                          handle |-> collection],
                                         NotInitialized, <<>>)
            /\ pending' = pending
       ELSE /\ last_call' = last_call
            /\ pending' = <<[skip |-> skip, limit |-> limit, before |-> client,
                             handle |-> collection,
                             stage |-> "list_collection_names"]>>
    /\ UNCHANGED dbVars

\* list_collection_names answered: it raised, or the collection is not listed
\* and get_logs returns [], or the cursor is built and the call is suspended
\* at to_list.
GetLogsListed(out) ==
    /\ pending # NoPending
    /\ pending[1].stage = "list_collection_names"
    /\ out \in ListOutcomes
    /\ IF out = "ListError"
       THEN /\ last_call' = GetLogsEnded(pending[1], out, <<>>)
            /\ pending' = NoPending
       ELSE IF ~coll_exists
       THEN /\ last_call' = GetLogsEnded(pending[1], "ok", <<>>)
            /\ pending' = NoPending
       ELSE /\ last_call' = last_call
            /\ pending' = <<[pending[1] EXCEPT !.stage = "to_list"]>>
    /\ UNCHANGED dbVars

\* to_list answered: the page as the store holds it now, or it raised.
GetLogsRead(out) ==
    /\ pending # NoPending
    /\ pending[1].stage = "to_list"
    /\ out \in ReadOutcomes
    /\ last_call' = GetLogsEnded(pending[1], out,
                        IF out = "ok"
                        THEN FindSkipLimit(store, pending[1].skip, pending[1].limit)
                        ELSE <<>>)
    /\ pending' = NoPending
    /\ UNCHANGED dbVars

MwInit ==
    /\ mw = "idle"
    /\ req = [endpoint |-> "", method |-> "", path |-> "", query |-> NoQuery,
              skip |-> 0, limit |-> 0, headers |-> NoHeaders]
    /\ inserts = <<>>
    /\ oplog = {}
    /\ sent = NoResp
    /\ last_call = NoCall
    /\ clock = 0
    /\ pending = NoPending
    /\ pending_log = NoPending

-----------------------------------------------------------------------------
(* Specification of get_jobs called on its own                             *)

JobsCall == (\E q \in JobQueries : GetJobsCall(q)) /\ UNCHANGED <<dbVars, mwQuiet>>

JobsValidate == ValidateCombination /\ UNCHANGED <<dbVars, mwQuiet>>

JobsScrapeReturns ==
    (\E rows \in Frames : ScrapeReturns(rows)) /\ UNCHANGED <<dbVars, mwQuiet>>

JobsScrapeRaises ==
    (\E e \in ScraperErrors : ScrapeRaises(e)) /\ UNCHANGED <<dbVars, mwQuiet>>

JobsReturn == GetJobsReturn /\ UNCHANGED <<dbVars, mwVars>>

JobsInit == JobInit /\ DbInit /\ ~coll_exists /\ MwInit

JobsNext ==
    \/ JobsCall
    \/ JobsValidate
    \/ JobsScrapeReturns
    \/ JobsScrapeRaises
    \/ JobsReturn

SpecJobs == JobsInit /\ [][JobsNext]_vars

-----------------------------------------------------------------------------
(* Specification of the row conversion of get_jobs on its own              *)

\* Lines 187-207 for the row at hand: the location, the keyword arguments,
\* the call JobResponse(...) and the append; the join or the call raising
\* ends get_jobs through its except clauses.
ConvertRow ==
    /\ pc = "convert"
    /\ IF join_raises(job)
       THEN /\ kwargs' = kwargs
            /\ all_results' = all_results
            /\ resp' = HTTPException(500, {ErrorLine("TypeError", {}, {})})
            /\ oplog' = oplog \cup {LoggedFor(500)}
            /\ pc' = "done"
       ELSE IF JobResponse(JobResponseArgs(job)) # {}
       THEN /\ kwargs' = JobResponseArgs(job)
            /\ all_results' = all_results
            /\ resp' = HTTPException(400, JobResponse(JobResponseArgs(job)))
            /\ oplog' = oplog \cup {LoggedFor(400)}
            /\ pc' = "done"
       ELSE /\ kwargs' = JobResponseArgs(job)
            /\ all_results' = Append(all_results, JobResponseArgs(job))
            /\ resp' = resp
            /\ oplog' = oplog
            /\ pc' = "built"
    /\ UNCHANGED <<query, sites, search_terms, locations, job_types, idx,
                   total_jobs, calls, frames, job>>

NormConvert == ConvertRow /\ UNCHANGED <<dbVars, mwQuiet>>

NormInit ==
    /\ pc = "convert"
    /\ query = NoQuery
    /\ sites = <<>>
    /\ search_terms = <<>>
    /\ locations = <<>>
    /\ job_types = <<>>
    /\ idx = LoopStart
    /\ all_results = <<>>
    /\ total_jobs = 1
    /\ calls = <<>>
    /\ frames = <<>>
    /\ job \in NormRows
    /\ kwargs = NoArgs
    /\ resp = NoResp
    /\ DbInit
    /\ ~coll_exists
    /\ MwInit

NormNext == NormConvert

SpecNormalize == NormInit /\ [][NormNext]_vars

-----------------------------------------------------------------------------
(* Specification of the MongoDB holder under direct calls                  *)

\* Header mappings of the direct log_request calls of this specification.
MongoHeaders == {[k \in {"authorization", "x-api-key"} |-> "v1"]}

\* What a direct call leaves alone besides the holder, its record and the log.
callerVars == <<jobVars, mw, req, inserts, sent, clock>>

MongoLog ==
    \E p \in Paths, h \in MongoHeaders :
        /\ LogRequestCall("GET", p, h, 200)
        /\ oplog' = {}
        /\ UNCHANGED <<callerVars, pending>>

MongoLogInserted ==
    \E out \in InsertOutcomes :
        /\ LogRequestInserted(out)
        /\ oplog' = oplog \cup LogRequestLogged(out)
        /\ UNCHANGED <<callerVars, pending>>

MongoGetLogs ==
    \E skip \in 0..(MaxStore + 1), limit \in LogLimits :
        /\ GetLogsCall(skip, limit)
        /\ oplog' = {}
        /\ UNCHANGED <<callerVars, pending_log>>

MongoGetLogsListed ==
    \E out \in ListOutcomes :
        /\ GetLogsListed(out)
        /\ oplog' = oplog \cup GetLogsLogged(out)
        /\ UNCHANGED <<callerVars, pending_log>>

MongoGetLogsRead ==
    \E out \in ReadOutcomes :
        /\ GetLogsRead(out)
        /\ oplog' = oplog \cup GetLogsLogged(out)
        /\ UNCHANGED <<callerVars, pending_log>>

MongoConnect ==
    \E out \in ConnectOutcomes :
        /\ ConnectCall(out)
        /\ oplog' = ConnectLogged(out)
        /\ UNCHANGED <<callerVars, pending, pending_log>>

MongoClose ==
    /\ CloseCall
    /\ oplog' = {}
    /\ UNCHANGED <<callerVars, pending, pending_log>>

MongoInit == JobInit /\ DbInit /\ MwInit

MongoNext ==
    \/ MongoConnect
    \/ MongoClose
    \/ MongoLog
    \/ MongoLogInserted
    \/ MongoGetLogs
    \/ MongoGetLogsListed
    \/ MongoGetLogsRead

SpecMongo == MongoInit /\ [][MongoNext]_vars

-----------------------------------------------------------------------------
(* Specification of the header redaction of RequestLogger.log_request      *)

HeadersInit ==
    /\ JobInit
    /\ DbInit
    /\ mw = "idle"
    /\ req \in [endpoint : {""}, method : {"GET"}, path : {"/health"},
                query : {NoQuery}, skip : {0}, limit : {0}, headers : HeaderInputs]
    /\ inserts = <<>>
    /\ oplog = {}
    /\ sent = NoResp
    /\ last_call = NoCall
    /\ clock = 0
    /\ pending = NoPending
    /\ pending_log = NoPending

HeadersLog ==
    /\ LogRequestCall(req.method, req.path, req.headers, 200)
    /\ oplog' = {}
    /\ UNCHANGED <<callerVars, pending>>

HeadersNext ==
    \/ MongoConnect
    \/ HeadersLog
    \/ MongoLogInserted

SpecHeaders == HeadersInit /\ [][HeadersNext]_vars

-----------------------------------------------------------------------------
(* The application: lifespan, log_requests middleware, the three routes    *)

NoRequest ==
    [endpoint |-> "", method |-> "", path |-> "", query |-> NoQuery,
     skip |-> 0, limit |-> 0, headers |-> NoHeaders]

\* Header mapping of the application's requests (Starlette lowercases keys).
AppHeaders == {[k \in {"authorization", "user-agent"} |-> "v1"]}

AppJobQueries ==
    {q \in JobQueries :
        /\ q.site_name \in {<<"linkedin", ",", " ", "Indeed">>, <<"XYZ">>}
        /\ q.search_term = Some(<<"dev">>)
        /\ q.location = None /\ q.job_type = None /\ q.proxies = None
        /\ q.linkedin_company_ids = None}

AppRequests ==
    [endpoint : {"jobs"}, method : {"GET"}, path : {"/api/v1/jobs"},
     query : AppJobQueries, skip : {0}, limit : {0}, headers : AppHeaders]
    \cup
    [endpoint : {"logs"}, method : {"GET"}, path : {"/api/v1/logs/logs"},
     query : {NoQuery}, skip : {0, 1}, limit : {1, 100}, headers : AppHeaders]
    \cup
    [endpoint : {"health"}, method : {"GET"}, path : {"/health"},
     query : {NoQuery}, skip : {0}, limit : {0}, headers : AppHeaders]

\* What the server answers when an exception leaves the middleware stack.
InternalServerError == HTTPException(500, {ErrorLine("Internal Server Error", {}, {})})

\* TimeoutMiddleware.__init__: the default of timeout_seconds.
timeout_seconds == 60

\* TimeoutMiddleware.dispatch when call_next raised exc: the exception that
\* leaves dispatch, the 504 HTTPException once more than timeout_seconds have
\* elapsed, else exc itself.
TimeoutDispatch(exc, elapsed) ==
    IF elapsed > timeout_seconds
    THEN HTTPException(504, {ErrorLine("Request timed out", {}, {})})
    ELSE exc

\* The middlewares main.py installs on app: the log_requests function and
\* CORSMiddleware.  TimeoutMiddleware is installed nowhere.
user_middleware == <<"CORSMiddleware", "log_requests">>

\* The exception that leaves the middleware stack when the route raised exc.
StackRaises(exc, elapsed) ==
    IF "TimeoutMiddleware" \in Range(user_middleware)
    THEN TimeoutDispatch(exc, elapsed)
    ELSE exc

\* What the caller receives for an exception that left the stack and is no
\* response: the server's 500.
ServerError(exc) == InternalServerError

\* The clock readings kept apart, and the steps the clock advances by.
MaxClock == 61

TickSeconds == {30, 31}

\* Time passes while the request is awaited downstream (the store's answer,
\* the ping, the scraper call).
Tick(d) ==
    /\ mw = "call_next"
    /\ pc \in {"idle", "scrape", "get_logs", "ping"}
    /\ clock + d <= MaxClock
    /\ clock' = clock + d
    /\ UNCHANGED <<jobVars, dbVars, mw, req, inserts, oplog, sent, last_call, pending,
                   pending_log>>

\* lifespan: startup
Startup(out) ==
    /\ client = "None"
    /\ connect_to_mongodb(out)
    /\ oplog' = oplog \cup ConnectLogged(out)
    /\ UNCHANGED <<jobVars, mwQuiet>>

\* lifespan: shutdown.  The code after `yield` runs only when
\* connect_to_mongodb returned, which is when the collection handle is set;
\* a startup that raised ends the lifespan before its yield.
Shutdown ==
    /\ client = "open"
    /\ collection = "set"
    /\ close_mongodb_connection
    /\ UNCHANGED <<jobVars, mwVars>>

\* log_requests up to `await call_next(request)`.
Receive(r) ==
    /\ mw \in {"idle", "done"}
    /\ pc = "idle"
    /\ mw' = "call_next"
    /\ req' = r
    /\ inserts' = <<>>
    /\ oplog' = {}
    /\ sent' = NoResp
    /\ resp' = NoResp
    /\ last_call' = NoCall
    /\ clock' = 0
    /\ UNCHANGED <<pending, pending_log>>
    /\ UNCHANGED <<pc, query, sites, search_terms, locations, job_types, idx,
                   all_results, total_jobs, calls, frames, job, kwargs>>
    /\ UNCHANGED dbVars

\* call_next reaches get_jobs.
JobsRoute ==
    /\ mw = "call_next"
    /\ req.endpoint = "jobs"
    /\ resp = NoResp
    /\ GetJobsCall(req.query)
    /\ UNCHANGED <<dbVars, mwQuiet>>

\* health_check: the payload, always with status 200.
HealthPayload(ping) ==
    IF db = "None" THEN "error: MongoDB not connected"
    ELSE IF ping = "ok" THEN "healthy: database connected"
    ELSE "error: Database connection error"

\* health_check up to `await MongoDB.db.command("ping")`: without a database
\* handle it returns its payload, else it is suspended at the ping.
HealthRoute ==
    /\ mw = "call_next"
    /\ req.endpoint = "health"
    /\ pc = "idle"
    /\ resp = NoResp
    /\ IF db = "None"
       THEN /\ resp' = [NoResp EXCEPT !.status = 200, !.payload = HealthPayload("ok")]
            /\ pc' = "done"
       ELSE /\ resp' = resp
            /\ pc' = "ping"
    /\ UNCHANGED <<query, sites, search_terms, locations, job_types, idx,
                   all_results, total_jobs, calls, frames, job, kwargs>>
    /\ UNCHANGED <<mw, req, inserts, oplog, sent, last_call, clock, pending,
                   pending_log>>
    /\ UNCHANGED dbVars

\* The ping answered: the healthy payload, or the exception is logged and the
\* error payload returned.
HealthPinged(ping) ==
    /\ mw = "call_next"
    /\ pc = "ping"
    /\ resp' = [NoResp EXCEPT !.status = 200, !.payload = HealthPayload(ping)]
    /\ pc' = "done"
    /\ oplog' = IF ping # "ok"
                THEN oplog \cup {"Database connection error"} ELSE oplog
    /\ UNCHANGED <<query, sites, search_terms, locations, job_types, idx,
                   all_results, total_jobs, calls, frames, job, kwargs>>
    /\ UNCHANGED <<mw, req, inserts, sent, last_call, clock, pending, pending_log>>
    /\ UNCHANGED dbVars

\* get_logs of log_api: MongoDB.get_logs is suspended, or returned and its
\* list is encoded, or raised through the route.
\* response_model=List[Dict[str, Any]]: the framework encodes what the route
\* returned; an ObjectId has no JSON encoding and the encoding raises.
Serializable(docs) == \A i \in 1..Len(docs) : "_id" \notin DOMAIN docs[i]

RouteAfterGetLogs ==
    /\ IF pending' # NoPending
       THEN /\ resp' = resp
            /\ pc' = "get_logs"
       ELSE IF last_call'.out = "ok" /\ Serializable(last_call'.result)
       THEN /\ resp' = [NoResp EXCEPT !.status = 200, !.logs = last_call'.result]
            /\ pc' = "done"
       ELSE IF last_call'.out = "ok"
       THEN /\ resp' = [NoResp EXCEPT
                           !.detail = {ErrorLine("PydanticSerializationError", {}, {})}]
            /\ pc' = "raised"
       ELSE /\ resp' = [NoResp EXCEPT !.detail = {ErrorLine(last_call'.out, {}, {})}]
            /\ pc' = "raised"
    /\ UNCHANGED <<query, sites, search_terms, locations, job_types, idx,
                   all_results, total_jobs, calls, frames, job, kwargs>>
    /\ UNCHANGED <<mw, req, inserts, sent, clock, pending_log>>

\* The route calls MongoDB.get_logs(skip=skip, limit=limit).
LogsRoute ==
    /\ mw = "call_next"
    /\ req.endpoint = "logs"
    /\ pc = "idle"
    /\ resp = NoResp
    /\ GetLogsCall(req.skip, req.limit)
    /\ oplog' = oplog
    /\ RouteAfterGetLogs

\* The route's get_logs call is resumed after list_collection_names.
LogsListed(out) ==
    /\ mw = "call_next"
    /\ pc = "get_logs"
    /\ GetLogsListed(out)
    /\ oplog' = oplog \cup GetLogsLogged(out)
    /\ RouteAfterGetLogs

\* The route's get_logs call is resumed after to_list.
LogsRead(out) ==
    /\ mw = "call_next"
    /\ pc = "get_logs"
    /\ GetLogsRead(out)
    /\ oplog' = oplog \cup GetLogsLogged(out)
    /\ RouteAfterGetLogs

\* log_requests after call_next returned a response: RequestLogger.log_request
\* is called; the guard's exception leaves the middleware, or the call is
\* suspended at insert_one.
MwLog ==
    /\ mw = "call_next"
    /\ pc = "done"
    /\ LogRequestCall(req.method, req.path, req.headers, resp.status)
    /\ IF ReachesInsert
       THEN /\ inserts' = Append(inserts, RequestLog(req.method, req.path,
                                                     req.headers, resp.status))
            /\ sent' = sent
            /\ mw' = "log_request"
            /\ UNCHANGED <<pc, query, sites, search_terms, locations, job_types,
                           idx, all_results, total_jobs, calls, frames, job, kwargs>>
       ELSE /\ inserts' = inserts
            /\ sent' = InternalServerError
            /\ mw' = "done"
            /\ DropLocals
    /\ UNCHANGED <<resp, req, oplog, clock, pending>>

\* insert_one answered: the response is returned, or the exception of the
\* log call leaves the middleware.
MwLogInserted(out) ==
    /\ mw = "log_request"
    /\ LogRequestInserted(out)
    /\ oplog' = oplog \cup LogRequestLogged(out)
    /\ sent' = IF out = "ok" THEN resp ELSE InternalServerError
    /\ mw' = "done"
    /\ DropLocals
    /\ UNCHANGED <<resp, req, inserts, clock, pending>>

\* log_requests when call_next raised: the exception passes through, the
\* lines after call_next do not run.
MwPropagate ==
    /\ mw = "call_next"
    /\ pc = "raised"
    /\ sent' = ServerError(StackRaises(resp, clock))
    /\ mw' = "done"
    /\ DropLocals
    /\ UNCHANGED <<resp, req, inserts, oplog, last_call, clock, pending, pending_log>>
    /\ UNCHANGED dbVars

AppReceive == \E r \in AppRequests : Receive(r)

AppHealthPinged == \E ping \in {"ok", "fail"} : HealthPinged(ping)

AppStartup == \E out \in ConnectOutcomes : Startup(out)

AppLogsListed == \E out \in ListOutcomes : LogsListed(out)

AppLogsRead == \E out \in ReadOutcomes : LogsRead(out)

AppMwLogInserted == \E out \in InsertOutcomes : MwLogInserted(out)

AppTick == \E d \in TickSeconds : Tick(d)

AppInit == JobInit /\ DbInit /\ MwInit

AppNext ==
    \/ AppStartup
    \/ Shutdown
    \/ AppReceive
    \/ JobsRoute
    \/ JobsValidate
    \/ JobsScrapeReturns
    \/ JobsScrapeRaises
    \/ HealthRoute
    \/ AppHealthPinged
    \/ LogsRoute
    \/ AppLogsListed
    \/ AppLogsRead
    \/ MwLog
    \/ AppMwLogInserted
    \/ MwPropagate
    \/ AppTick

SpecApp == AppInit /\ [][AppNext]_vars

-----------------------------------------------------------------------------
(* Properties of get_jobs (SpecJobs)                                       *)

\* The comma-separated pieces of a text, by the positions of its commas.
CommaPos(text) == {i \in 1..Len(text) : text[i] = ","}

NumPieces(text) == Cardinality(CommaPos(text)) + 1

NthPiece(text, n) ==
    LET before == {p \in CommaPos(text) : Cardinality({c \in CommaPos(text) : c <= p}) = n - 1}
        after  == {p \in CommaPos(text) : Cardinality({c \in CommaPos(text) : c <= p}) = n}
        from   == IF before = {} THEN 0 ELSE CHOOSE p \in before : TRUE
        to     == IF after = {} THEN Len(text) + 1 ELSE CHOOSE p \in after : TRUE
    IN  SubSeq(text, from + 1, to - 1)

\* k of a list parameter: its number of pieces, one when it is absent.
KOf(opt) == IF Truthy(opt) THEN NumPieces(opt[1]) ELSE 1

\* The n-th element of a list parameter, trimmed; None when it is absent.
ElemOf(opt, n) == IF Truthy(opt) THEN Some(Strip(NthPiece(opt[1], n))) ELSE None

\* The site tokens of the request, trimmed and lowercased (none for "").
SiteTokens(text) ==
    IF text = <<>> THEN {}
    ELSE {StripLower(NthPiece(text, n)) : n \in 1..NumPieces(text)}

HasInvalidSite(q) == SiteTokens(q.site_name) \ valid_sites # {}

\* Every combination of the request validates.
AllCombinationsValid(q) ==
    /\ BadCompanyIds(q.linkedin_company_ids) = <<>>
    /\ ~HasInvalidSite(q)
    /\ q.proxies = None
    /\ \A n \in 1..KOf(q.job_type) : validate_job_type(ElemOf(q.job_type, n)) = {}

RECURSIVE SumLen(_)
SumLen(fs) == IF fs = <<>> THEN 0 ELSE Len(Head(fs)) + SumLen(Tail(fs))

RECURSIVE Concat(_)
Concat(fs) == IF fs = <<>> THEN <<>> ELSE Head(fs) \o Concat(Tail(fs))

\* C1: when every combination validates and every scraper call returns,
\* get_jobs answers 200 with total_results the sum of the returned frames'
\* lengths and with exactly one job per raw record, in call order.
C1_TotalAndJobsPerRecord ==
    (pc = "done" /\ AllCombinationsValid(query) /\ Len(frames) = Len(calls))
        => /\ resp.status = 200
           /\ resp.total_results = SumLen(frames)
           /\ Len(resp.jobs) = SumLen(frames)
           /\ resp.jobs = [i \in 1..SumLen(frames) |-> JobResponseArgs(Concat(frames)[i])]

\* The keyword arguments expected for the n-th call: search_term outermost,
\* location in the middle, job_type innermost.
ExpectedCall(q, n) ==
    LET k2 == KOf(q.location)
        k3 == KOf(q.job_type)
        a  == ((n - 1) \div (k2 * k3)) + 1
        b  == (((n - 1) \div k3) % k2) + 1
        c  == ((n - 1) % k3) + 1
    IN  [site_name   |-> SiteTokens(q.site_name),
         search_term |-> ElemOf(q.search_term, a),
         location    |-> ElemOf(q.location, b),
         job_type    |-> ElemOf(q.job_type, c)]

\* C2: the scraper calls issued so far are the first combinations in the
\* order search_term, location, job_type, one call each; a request that ends
\* without a failure has issued exactly k1*k2*k3 calls.
C2_CombinationOrder ==
    /\ \A n \in 1..Len(calls) : calls[n] = ExpectedCall(query, n)
    /\ (pc = "done" /\ resp.status = 200)
          => Len(calls) = KOf(query.search_term) * KOf(query.location) * KOf(query.job_type)

C2_Witness ==
    /\ pc = "done"
    /\ resp.status = 200
    /\ Len(calls) = 8
    /\ calls[1].search_term # calls[5].search_term
    /\ calls[1].location # calls[3].location
    /\ calls[1].job_type # calls[2].job_type

\* C3: whenever a scraper call raised, the request ends with status 500, no
\* partial results, and no further scraper call.
C3_ScraperFailureIs500 ==
    (pc = "done" /\ Len(calls) > Len(frames))
        => (resp.status = 500 /\ resp.jobs = <<>>)

\* C4 as claimed: a request with an invalid site token ends 400 with a
\* message naming every invalid token and listing the valid sites, and no
\* scraper call is issued.
C4_InvalidSiteNamed ==
    (pc = "done" /\ HasInvalidSite(query))
        => /\ resp.status = 400
           /\ ErrorLine("site_name", SiteTokens(query.site_name) \ valid_sites,
                        valid_sites) \in resp.detail
           /\ calls = <<>>

\* C4 as amended: such a request never issues a scraper call and ends 400;
\* the message names every invalid token (trimmed, lowercased) and lists the
\* valid sites unless linkedin_company_ids holds a token int() rejects, in
\* which case the message is that of the integer conversion.
C4_InvalidSiteRejected ==
    HasInvalidSite(query)
        => /\ calls = <<>>
           /\ pc # "scrape"
           /\ pc = "done" =>
                /\ resp.status = 400
                /\ IF BadCompanyIds(query.linkedin_company_ids) = <<>>
                   THEN ErrorLine("site_name", SiteTokens(query.site_name) \ valid_sites,
                                  valid_sites) \in resp.detail
                   ELSE \A line \in resp.detail : line.field = "int()"

C4_Witness ==
    /\ pc = "done"
    /\ BadCompanyIds(query.linkedin_company_ids) = <<>>
    /\ Cardinality(SiteTokens(query.site_name) \ valid_sites) = 2
    /\ resp.status = 400
    /\ \E line \in resp.detail : line.field = "site_name" /\ Cardinality(line.invalid) = 2

\* The job_type token of the n-th combination (job_type is innermost).
TypeOfCombination(q, n) == ElemOf(q.job_type, ((n - 1) % KOf(q.job_type)) + 1)

\* Whether the merged parameter set of the n-th combination is valid.
CombinationValid(q, n) ==
    /\ ~HasInvalidSite(q)
    /\ q.proxies = None
    /\ \/ TypeOfCombination(q, n) = None
       \/ Lower(TypeOfCombination(q, n)[1]) \in valid_types

NumCombinations(q) == KOf(q.search_term) * KOf(q.location) * KOf(q.job_type)

\* Number of the first combination that fails validation, 0 when none does.
FirstInvalid(q) ==
    LET bad == {n \in 1..NumCombinations(q) : ~CombinationValid(q, n)}
    IN  IF bad = {} THEN 0 ELSE CHOOSE n \in bad : \A m \in bad : n <= m

\* C15: with n the first combination whose merged parameter set fails
\* validation, no scraper call is ever issued for combination n or a later
\* one, and a request that reached combination n (its n-1 earlier calls
\* returned and their rows were converted) ended with status 400 and a
\* message about the failing field.
C15_ValidationPerCombination ==
    FirstInvalid(query) # 0
        => /\ Len(calls) < FirstInvalid(query)
           /\ (/\ pc = "done"
               /\ BadCompanyIds(query.linkedin_company_ids) = <<>>
               /\ Len(frames) = FirstInvalid(query) - 1
               /\ \A i \in 1..Len(frames) : FirstBadRow(frames[i]) = 0)
                 => /\ Len(calls) = FirstInvalid(query) - 1
                    /\ resp.status = 400
                    /\ \A line \in resp.detail :
                          line.field \in {"site_name", "job_type", "proxies"}
                    /\ resp.detail # {}

C15_Witness ==
    /\ pc = "done"
    /\ FirstInvalid(query) = 2
    /\ ~HasInvalidSite(query)
    /\ query.proxies = None
    /\ Len(calls) = 1
    /\ Len(frames) = 1
    /\ calls[1].job_type = Some(<<"fulltime">>)
    /\ resp.status = 400
    /\ ErrorLine("job_type", {<<"bogus">>}, valid_types) \in resp.detail

-----------------------------------------------------------------------------
(* Properties of the row conversion (SpecNormalize)                        *)

\* The raw columns copied to one output field each.
DirectFields ==
    { <<"site", "source_website">>, <<"title", "job_title">>,
      <<"job_type", "job_type">>, <<"currency", "currency">>,
      <<"is_remote", "is_remote">>, <<"description", "job_description">>,
      <<"experience_range", "experience_range">> }

HoldsNaN(row, key) == key \in DOMAIN row /\ row[key] = NaN

\* C12: no field computed for the NormalizedJob (the keyword arguments of
\* JobResponse) is NaN, whichever raw fields
\* hold NaN: a NaN raw field copied to one output field comes out as the
\* absent value, a NaN company as the placeholder, a NaN date as the text of
\* the absent value, a NaN location as the joined city and state, and a NaN
\* amount never as the salary.
C12_NoNaNInNormalizedJob ==
    kwargs # NoArgs
        => /\ \A f \in DOMAIN kwargs : kwargs[f] # NaN /\ kwargs[f] # "nan"
           /\ \A p \in DirectFields : HoldsNaN(job, p[1]) => kwargs[p[2]] = NoneV
           /\ HoldsNaN(job, "company") => kwargs.company = "Unknown Company"
           /\ HoldsNaN(job, "date_posted") => kwargs.date_posted = "None"
           /\ HoldsNaN(job, "location") => kwargs.location = "Austin"

C12_Witness ==
    /\ kwargs # NoArgs
    /\ \A p \in DirectFields \ {<<"site", "source_website">>} : HoldsNaN(job, p[1])
    /\ HoldsNaN(job, "company") /\ HoldsNaN(job, "location")
    /\ HoldsNaN(job, "min_amount") /\ HoldsNaN(job, "max_amount")
    /\ kwargs.salary = NoneV
    /\ kwargs.currency = NoneV
    /\ kwargs.company = "Unknown Company"

\* A raw amount is absent when its column is missing or holds None or NaN.
AbsentAmount(row, key) == key \notin DOMAIN row \/ row[key] \in {NoneV, NaN}

\* C13: the salary is min_amount when that is present, max_amount when
\* min_amount is absent (missing, None or NaN) and max_amount is present, and
\* absent exactly when both are absent.
C13_SalaryPrefersMin ==
    kwargs # NoArgs
        => /\ ~AbsentAmount(job, "min_amount") => kwargs.salary = job.min_amount
           /\ (AbsentAmount(job, "min_amount") /\ ~AbsentAmount(job, "max_amount"))
                 => kwargs.salary = job.max_amount
           /\ kwargs.salary = NoneV
                 <=> (AbsentAmount(job, "min_amount") /\ AbsentAmount(job, "max_amount"))

\* A raw field is absent when its column is missing or holds NaN.
AbsentField(row, key) == key \notin DOMAIN row \/ row[key] = NaN

\* C14: an absent currency (column missing or NaN) comes out as "USD" and an
\* absent remote flag as False.
C14_CurrencyAndRemoteDefaults ==
    kwargs # NoArgs
        => /\ AbsentField(job, "currency") => kwargs.currency = "USD"
           /\ AbsentField(job, "is_remote") => kwargs.is_remote = FalseV

-----------------------------------------------------------------------------
(* Properties of the application (SpecApp)                                 *)

\* C5: when the audit insert failed for a request (insert_one raised inside
\* MongoDB.log_request), the caller still received the inner handler's
\* response, status and body unchanged, and the failure is in the operator log.
C5_AuditFailureNotSurfaced ==
    (mw = "done" /\ last_call.op = "log_request" /\ last_call.out = "InsertError")
        => /\ sent = resp
           /\ "Failed to log request to MongoDB" \in oplog

\* C7: every served request made exactly one audit-record attempt, after the
\* handler's outcome, carrying the request's method and path and the
\* response's status.
C7_OneAuditPerRequest ==
    mw = "done"
        => /\ last_call.op = "log_request"
           /\ last_call.args = <<req.method, req.path, req.headers, resp.status>>

\* C10: a served health request ended with status 200 and a status payload.
C10_HealthNeverErrors ==
    (mw = "done" /\ req.endpoint = "health")
        => (sent.status = 200 /\ sent.payload # "")

\* C11: a served request whose downstream processing raised more than
\* timeout_seconds after the request started was answered 504, and one whose
\* downstream processing raised before the deadline was answered with the
\* original error (the server's 500).
C11_TimeoutIs504 ==
    (mw = "done" /\ resp.status = 0 /\ resp.detail # {})
        => IF clock > timeout_seconds
           THEN sent.status = 504
           ELSE sent = InternalServerError

-----------------------------------------------------------------------------
(* Properties of the MongoDB holder (SpecMongo, SpecHeaders)               *)

\* C6: a log_request issued with the connection never initialized or already
\* closed fails with the explicit error and hands nothing to insert_one.
C6_LogOutsideLifecycleFails ==
    (last_call.op = "log_request" /\ last_call.before \in {"None", "closed"})
        => (last_call.out = NotInitialized /\ last_call.inserted = <<>>)

AuthorizationSpellings == {"authorization", "Authorization", "AUTHORIZATION"}

Redacted(inbound, kept) ==
    /\ DOMAIN kept = DOMAIN inbound \ AuthorizationSpellings
    /\ \A k \in DOMAIN kept : kept[k] = inbound[k]

\* C8: the record RequestLogger.log_request builds, and hands to insert_one,
\* holds no authorization header in any letter case and every other inbound
\* header unchanged.
C8_AuthorizationRedacted ==
    last_call.op = "log_request"
        => /\ Redacted(last_call.args[3], last_call.result[1].headers)
           /\ \A i \in 1..Len(last_call.inserted) :
                 Redacted(last_call.args[3], last_call.inserted[i].headers)
           /\ \A i \in 1..Len(store) :
                 DOMAIN store[i].headers \cap AuthorizationSpellings = {}

C8_Witness ==
    /\ last_call.op = "log_request"
    /\ last_call.out = "ok"
    /\ DOMAIN last_call.args[3] = {"Authorization", "X-Api-Key"}
    /\ DOMAIN store[Len(store)].headers = {"X-Api-Key"}

\* C9, the store's part: with the connection initialized (the client open and
\* the collection handle set when the call began) and the store answering,
\* MongoDB.get_logs returns the
\* empty list for a collection that does not exist, and otherwise the records
\* after the first skip ones, at most limit of them, in the store's order.
C9_GetLogsPage ==
    (last_call.op = "get_logs" /\ last_call.before = "open"
        /\ last_call.args[3] = "set"
        /\ last_call.out \notin {"ListError", "FindError"})
        => LET skip  == last_call.args[1]
               limit == last_call.args[2]
               page  == last_call.result
           IN  /\ last_call.out = "ok"
               /\ ~coll_exists => page = <<>>
               /\ Len(page) <= limit
               /\ Len(page) = IF Len(store) <= skip THEN 0
                              ELSE Min(limit, Len(store) - skip)
               /\ \A i \in 1..Len(page) : page[i] = store[skip + i]

C9_Witness ==
    /\ last_call.op = "get_logs"
    /\ last_call.before = "open"
    /\ last_call.out = "ok"
    /\ last_call.args[1] = 1
    /\ last_call.args[2] = 1
    /\ Len(store) = 3
    /\ store[1] # store[2]
    /\ store[2] # store[3]
    /\ last_call.result = <<store[2]>>

\* C9: a logs request whose MongoDB.get_logs call ran on an initialized
\* connection with the store answering is answered 200 with the page: the
\* empty list when the collection does not exist, and otherwise the records
\* after the first skip ones, at most limit of them, in the store's order.
C9_LogsEndpointPage ==
    (req.endpoint = "logs" /\ mw = "call_next" /\ pc \in {"done", "raised"}
        /\ last_call.op = "get_logs" /\ last_call.before = "open"
        /\ last_call.args[3] = "set"
        /\ last_call.out \notin {"ListError", "FindError"})
        => LET skip  == last_call.args[1]
               limit == last_call.args[2]
           IN  /\ resp.status = 200
               /\ ~coll_exists => resp.logs = <<>>
               /\ Len(resp.logs) <= limit
               /\ Len(resp.logs) = IF Len(store) <= skip THEN 0
                                   ELSE Min(limit, Len(store) - skip)
               /\ \A i \in 1..Len(resp.logs) : resp.logs[i] = store[skip + i]

=============================================================================
